---- MODULE Spec2Model ----
(***************************************************************************)
(* A model of the ESG dashboard: the per-ticker scraper                    *)
(* (src/fetch_data.py) and the Streamlit script that drives it             *)
(* (src/app.py).                                                           *)
(*                                                                         *)
(* Encoding.  A text is a sequence of one-character strings.  An optional  *)
(* value (Python None, a tag that find() did not find, a pandas NaN) is a  *)
(* sequence of length at most one: <<>> is None, <<x>> is x.  A Python     *)
(* float is an exact decimal [m, e] standing for m / 10^e, normalised.     *)
(***************************************************************************)
EXTENDS Integers, Sequences, FiniteSets, TLC

VARIABLES
    \* ---- one call of scrape_esg_scores ----
    resp,               \* what requests.get does for this call
    spc,                \* position in scrape_esg_scores
    raised_at,          \* the step an exception left from ("" when none)
    scores,             \* total_score, total_level, env_score, soc_score, gov_score
    involvement_data,   \* the dict built by the involvement loop
    controversy,        \* controversy_score, category_average
    ret,                \* the return value: None or the dict
    \* ---- the script and fetch_data ----
    uploaded_file, single_ticker, tickers, messages,
    pc,                 \* position in the script / in fetch_data
    cache,              \* st.cache_data's store: ticker list -> return value
    results, valid_count, i,
    outcomes,           \* what scrape_esg_scores did for each ticker of this call
    extracting,         \* this call runs the body of fetch_data (a cache miss)
    earlier,            \* the ticker lists fetch_data was called with before this call
    runs,               \* calls of fetch_data made so far
    df, df_expanded, coverage_pct

svars == <<resp, spc, raised_at, scores, involvement_data, controversy, ret>>
avars == <<uploaded_file, single_ticker, tickers, messages, pc, cache, results,
           valid_count, i, outcomes, extracting, earlier, runs, df, df_expanded,
           coverage_pct>>
vars == <<svars, avars>>

----------------------------------------------------------------------------
(* Bounds of the model *)

\* rows of the involvement table of a page
MaxRows == 3
\* data rows of an uploaded CSV file
MaxFileRows == 2
\* calls of fetch_data over successive renders
MaxRuns == 2

----------------------------------------------------------------------------
(* Optional values *)

None == <<>>
Some(x) == <<x>>
IsNone(o) == o = <<>>
Val(o) == o[1]

----------------------------------------------------------------------------
(* Texts: str.strip, str.upper, str.lower, float *)

Whitespace == {" ", "\t", "\n"}
Digits == {"0", "1", "2", "3", "4", "5", "6", "7", "8", "9"}

DigitVal(c) ==
    CASE c = "0" -> 0 [] c = "1" -> 1 [] c = "2" -> 2 [] c = "3" -> 3
      [] c = "4" -> 4 [] c = "5" -> 5 [] c = "6" -> 6 [] c = "7" -> 7
      [] c = "8" -> 8 [] c = "9" -> 9

RECURSIVE lstrip(_)
lstrip(s) == IF s # <<>> /\ Head(s) \in Whitespace THEN lstrip(Tail(s)) ELSE s

RECURSIVE rstrip(_)
rstrip(s) ==
    IF s # <<>> /\ s[Len(s)] \in Whitespace
    THEN rstrip(SubSeq(s, 1, Len(s) - 1))
    ELSE s

strip(s) == rstrip(lstrip(s))

UpperChar(c) ==
    CASE c = "a" -> "A" [] c = "b" -> "B" [] c = "l" -> "L" [] c = "o" -> "O"
      [] c = "w" -> "W" [] c = "p" -> "P"
      [] OTHER -> c

LowerChar(c) ==
    CASE c = "A" -> "a" [] c = "B" -> "b" [] c = "L" -> "l" [] c = "O" -> "o"
      [] c = "W" -> "w" [] c = "P" -> "p"
      [] OTHER -> c

upper(s) == [k \in 1..Len(s) |-> UpperChar(s[k])]
lower(s) == [k \in 1..Len(s) |-> LowerChar(s[k])]

RECURSIVE DigitsVal(_)
DigitsVal(s) ==
    IF s = <<>> THEN 0
    ELSE DigitsVal(SubSeq(s, 1, Len(s) - 1)) * 10 + DigitVal(s[Len(s)])

IsDigits(s) == \A k \in 1..Len(s) : s[k] \in Digits

RECURSIVE Pow10(_)
Pow10(n) == IF n = 0 THEN 1 ELSE 10 * Pow10(n - 1)

RECURSIVE Normalize(_, _)
Normalize(m, e) ==
    IF e > 0 /\ m % 10 = 0 THEN Normalize(m \div 10, e - 1) ELSE [m |-> m, e |-> e]

\* float(text): [ok |-> FALSE] is ValueError.  The grammar is Python's on the
\* alphabet of the texts used here (digits, sign, point, blanks, letters):
\* blanks are stripped, then [sign] digits [. digits] or [sign] [digits] . digits.
float(text) ==
    LET t == strip(text)
        signed == t # <<>> /\ Head(t) \in {"+", "-"}
        sgn == IF signed /\ Head(t) = "-" THEN -1 ELSE 1
        body == IF signed THEN Tail(t) ELSE t
        dots == {k \in 1..Len(body) : body[k] = "."}
    IN  IF dots = {}
        THEN IF body # <<>> /\ IsDigits(body)
             THEN [ok |-> TRUE, v |-> Normalize(sgn * DigitsVal(body), 0)]
             ELSE [ok |-> FALSE]
        ELSE IF Cardinality(dots) = 1
        THEN LET d == CHOOSE k \in dots : TRUE
                 ip == SubSeq(body, 1, d - 1)
                 fp == SubSeq(body, d + 1, Len(body))
             IN  IF IsDigits(ip) /\ IsDigits(fp) /\ Len(ip) + Len(fp) >= 1
                 THEN [ok |-> TRUE,
                       v |-> Normalize(sgn * (DigitsVal(ip) * Pow10(Len(fp)) + DigitsVal(fp)),
                                       Len(fp))]
                 ELSE [ok |-> FALSE]
        ELSE [ok |-> FALSE]

----------------------------------------------------------------------------
(* Pages.  A page gives, for each data-testid, the first section carrying  *)
(* it (None when soup.find finds none).  A score section gives the text of *)
(* its first h4 and of its first span of class "perf yf-y3c2sq".  The      *)
(* involvement section gives its first table as the list of its tr rows,   *)
(* each row the texts of its td cells.  The controversy section gives the  *)
(* span texts of its div "val yf-ye6fz0" and, in its tooltip div, the text *)
(* of the span "peer-score yf-ye6fz0".                                     *)

T_14_2 == <<" ", "1", "4", ".", "2", " ">>
T_3 == <<"3">>
T_30 == <<"3", ".", "0">>
T_2_1 == <<"2", ".", "1", "\n">>
T_NA == <<"N", "/", "A">>
T_Dashes == <<"-", "-">>
T_Low == <<" ", "L", "o", "w">>
T_Tobacco == <<"T", "o", "b">>
T_TobaccoPad == <<" ", "T", "o", "b", " ">>
T_Alcohol == <<"A", "l", "c">>
T_Yes == <<"Y", "e", "s">>
T_No == <<"N", "o">>
T_Product == <<"P">>

ScoreSections ==
    {None} \cup
    {Some([h4 |-> h, perf |-> p]) :
        h \in {None, Some(T_14_2), Some(T_NA)}, p \in {None, Some(T_Low)}}

SubScoreSections ==
    {None, Some([h4 |-> Some(T_3), perf |-> None]),
     Some([h4 |-> Some(T_Dashes), perf |-> Some(T_Low)])}

\* a header row of th cells (no td), two-cell rows (one product twice, with
\* different descriptors and different padding), a one-cell and a three-cell row
RowSamples ==
    {<<>>, <<T_TobaccoPad, T_Yes>>, <<T_Tobacco, T_No>>, <<T_Alcohol>>,
     <<T_Alcohol, T_Yes, T_No>>}

RECURSIVE SeqsUpTo(_, _)
SeqsUpTo(S, n) ==
    IF n = 0 THEN {<<>>}
    ELSE LET shorter == SeqsUpTo(S, n - 1)
         IN  shorter \cup {Append(q, x) : q \in {r \in shorter : Len(r) = n - 1}, x \in S}

InvolvementSections ==
    {None, Some([table |-> None])} \cup
    {Some([table |-> Some(rows)]) : rows \in SeqsUpTo(RowSamples, MaxRows)}

FewInvolvementSections ==
    {None, Some([table |-> Some(<<<<>>, <<T_Tobacco, T_Yes>>>>)]),
     Some([table |-> Some(<<<<T_Product, T_Product>>>>)])}

ControversySections ==
    {None} \cup
    {Some([val |-> v, tooltip |-> t]) :
        v \in {None, Some(<<>>), Some(<<T_3>>), Some(<<T_3, T_NA>>),
               Some(<<T_NA, T_3>>)},
        t \in {None, Some([peer |-> None]), Some([peer |-> Some(T_2_1)]),
               Some([peer |-> Some(T_NA)])}}

FewControversySections ==
    {None, Some([val |-> Some(<<T_3, T_3>>), tooltip |-> Some([peer |-> Some(T_NA)])])}

MkPage(tot, env, soc, gov, inv, con) ==
    [TOTAL_ESG_SCORE |-> tot, ENVIRONMENTAL_SCORE |-> env, SOCIAL_SCORE |-> soc,
     GOVERNANCE_SCORE |-> gov, involvement_areas |-> inv, esg_controversy |-> con]

\* every combination of score and controversy sections with a few involvement
\* sections, and every involvement section with a few of the others
Pages ==
    {MkPage(tot, env, soc, gov, inv, con) :
        tot \in ScoreSections, env \in SubScoreSections, soc \in SubScoreSections,
        gov \in SubScoreSections, inv \in FewInvolvementSections,
        con \in ControversySections}
    \cup
    {MkPage(tot, env, env, None, inv, con) :
        tot \in {None, Some([h4 |-> Some(T_14_2), perf |-> Some(T_Low)])},
        env \in SubScoreSections, inv \in InvolvementSections,
        con \in FewControversySections}

EmptyPage == MkPage(None, None, None, None, None, None)

\* requests.get: it raises (no connection) or gives a response
Responses ==
    {[raises |-> TRUE, status_code |-> 0, page |-> EmptyPage],
     [raises |-> FALSE, status_code |-> 404, page |-> EmptyPage],
     [raises |-> FALSE, status_code |-> 500,
      page |-> MkPage(Some([h4 |-> Some(T_14_2), perf |-> None]), None, None, None,
                      None, None)]}
    \cup {[raises |-> FALSE, status_code |-> 200, page |-> p] : p \in Pages}

----------------------------------------------------------------------------
(* scrape_esg_scores, step by step *)

\* get_score(testid): (score, level), or ValueError out of float()
get_score(page, testid) ==
    LET section == page[testid]
    IN  IF IsNone(section)
        THEN [raised |-> FALSE, score |-> None, level |-> None]
        ELSE LET score_tag == Val(section).h4
                 level_tag == Val(section).perf
                 f == IF IsNone(score_tag) THEN [ok |-> TRUE] ELSE float(strip(Val(score_tag)))
             IN  [raised |-> ~f.ok,
                  score |-> IF IsNone(score_tag) \/ ~f.ok THEN None ELSE Some(f.v),
                  level |-> IF IsNone(level_tag) THEN None ELSE Some(strip(Val(level_tag)))]

\* the dict after the loop over rows[1:]: involvement_data[product] = involvement
RECURSIVE involvement_loop(_, _)
involvement_loop(rows, data) ==
    IF rows = <<>> THEN data
    ELSE LET cols == Head(rows)
         IN  IF Len(cols) = 2
             THEN LET product == strip(cols[1])
                      involvement == strip(cols[2])
                  IN  involvement_loop(Tail(rows),
                        [p \in DOMAIN data \cup {product} |->
                            IF p = product THEN involvement ELSE data[p]])
             ELSE involvement_loop(Tail(rows), data)

EmptyDict == [p \in {} |-> <<>>]

\* rows[1:]
AfterFirst(rows) == IF rows = <<>> THEN <<>> ELSE Tail(rows)

\* involvement_areas with the loop over rows instead of rows[1:]
involvement_areas_with_header(page) ==
    LET involvement_section == page.involvement_areas
    IN  IF IsNone(involvement_section) THEN EmptyDict
        ELSE LET table == Val(involvement_section).table
             IN  IF IsNone(table) THEN EmptyDict
                 ELSE involvement_loop(Val(table), EmptyDict)

involvement_areas(page) ==
    LET involvement_section == page.involvement_areas
    IN  IF IsNone(involvement_section) THEN EmptyDict
        ELSE LET table == Val(involvement_section).table
             IN  IF IsNone(table) THEN EmptyDict
                 ELSE involvement_loop(AfterFirst(Val(table)), EmptyDict)

\* try: float(text) except: pass, on a variable that starts as None
try_float(text) == LET f == float(text) IN IF f.ok THEN Some(f.v) ELSE None

\* controversy_fields with one try around both conversions: a score that does
\* not parse leaves the average unread
controversy_fields_one_try(page) ==
    LET controversy_section == page.esg_controversy
    IN  IF IsNone(controversy_section)
        THEN [controversy_score |-> None, category_average |-> None]
        ELSE LET val_div == Val(controversy_section).val
                 tooltip_div == Val(controversy_section).tooltip
                 tried == ~IsNone(val_div) /\ Len(Val(val_div)) >= 2
                 score == IF tried THEN try_float(strip(Val(val_div)[1])) ELSE None
             IN  [controversy_score |-> score,
                  category_average |->
                      IF tried /\ IsNone(score) THEN None
                      ELSE IF IsNone(tooltip_div) THEN None
                      ELSE LET peer_span == Val(tooltip_div).peer
                           IN  IF IsNone(peer_span) THEN None
                               ELSE try_float(strip(Val(peer_span)))]

controversy_fields(page) ==
    LET controversy_section == page.esg_controversy
    IN  IF IsNone(controversy_section)
        THEN [controversy_score |-> None, category_average |-> None]
        ELSE LET val_div == Val(controversy_section).val
                 tooltip_div == Val(controversy_section).tooltip
             IN  [controversy_score |->
                      IF IsNone(val_div) THEN None
                      ELSE LET spans == Val(val_div)
                           IN  IF spans # <<>> /\ Len(spans) >= 2
                               THEN try_float(strip(spans[1]))
                               ELSE None,
                  category_average |->
                      IF IsNone(tooltip_div) THEN None
                      ELSE LET peer_span == Val(tooltip_div).peer
                           IN  IF IsNone(peer_span) THEN None
                               ELSE try_float(strip(Val(peer_span)))]

ScoreIds == <<"TOTAL_ESG_SCORE", "ENVIRONMENTAL_SCORE", "SOCIAL_SCORE", "GOVERNANCE_SCORE">>

NoScores ==
    [total |-> None, total_level |-> None, environmental |-> None, social |-> None,
     governance |-> None]

NoControversy == [controversy_score |-> None, category_average |-> None]

\* the dict of the return statement
result_dict(sc, inv, con) ==
    [total |-> sc.total, total_level |-> sc.total_level,
     environmental |-> sc.environmental, social |-> sc.social,
     governance |-> sc.governance, involvement_areas |-> inv,
     controversy_score |-> con.controversy_score,
     controversy_category_average |-> con.category_average]

\* requests.get(url, headers=headers)
Request ==
    /\ spc = "start"
    /\ IF resp.raises
       THEN spc' = "raised" /\ raised_at' = "requests.get"
       ELSE spc' = "status" /\ raised_at' = raised_at
    /\ UNCHANGED <<resp, scores, involvement_data, controversy, ret, avars>>

\* if resp.status_code != 200: return None
CheckStatus ==
    /\ spc = "status"
    /\ IF resp.status_code # 200
       THEN spc' = "done" /\ ret' = None
       ELSE spc' = ScoreIds[1] /\ ret' = ret
    /\ UNCHANGED <<resp, raised_at, scores, involvement_data, controversy, avars>>

\* the k-th of the four get_score calls
GetScore(k) ==
    /\ spc = ScoreIds[k]
    /\ LET g == get_score(resp.page, ScoreIds[k])
       IN  IF g.raised
           THEN /\ spc' = "raised"
                /\ raised_at' = "get_score"
                /\ scores' = scores
           ELSE /\ spc' = IF k < Len(ScoreIds) THEN ScoreIds[k + 1] ELSE "involvement"
                /\ raised_at' = raised_at
                /\ scores' =
                      CASE k = 1 -> [scores EXCEPT !.total = g.score, !.total_level = g.level]
                        [] k = 2 -> [scores EXCEPT !.environmental = g.score]
                        [] k = 3 -> [scores EXCEPT !.social = g.score]
                        [] k = 4 -> [scores EXCEPT !.governance = g.score]
    /\ UNCHANGED <<resp, involvement_data, controversy, ret, avars>>

Involvement ==
    /\ spc = "involvement"
    /\ involvement_data' = involvement_areas(resp.page)
    /\ spc' = "controversy"
    /\ UNCHANGED <<resp, raised_at, scores, controversy, ret, avars>>

Controversy ==
    /\ spc = "controversy"
    /\ controversy' = controversy_fields(resp.page)
    /\ spc' = "return"
    /\ UNCHANGED <<resp, raised_at, scores, involvement_data, ret, avars>>

Return ==
    /\ spc = "return"
    /\ ret' = Some(result_dict(scores, involvement_data, controversy))
    /\ spc' = "done"
    /\ UNCHANGED <<resp, raised_at, scores, involvement_data, controversy, avars>>

\* scrape_esg_scores as one function of what requests.get does: the exception
\* that leaves it, or its return value
scrape_esg_scores(r) ==
    IF r.raises THEN [raised |-> TRUE, data |-> None]
    ELSE IF r.status_code # 200 THEN [raised |-> FALSE, data |-> None]
    ELSE LET tot == get_score(r.page, ScoreIds[1])
             env == get_score(r.page, ScoreIds[2])
             soc == get_score(r.page, ScoreIds[3])
             gov == get_score(r.page, ScoreIds[4])
         IN  IF tot.raised \/ env.raised \/ soc.raised \/ gov.raised
             THEN [raised |-> TRUE, data |-> None]
             ELSE [raised |-> FALSE,
                   data |-> Some(result_dict(
                       [total |-> tot.score, total_level |-> tot.level,
                        environmental |-> env.score, social |-> soc.score,
                        governance |-> gov.score],
                       involvement_areas(r.page), controversy_fields(r.page)))]

----------------------------------------------------------------------------
(* The script's inputs *)

\* a cell of an uploaded column: NaN, or a text
TickerCells == {None, Some(<<"a">>), Some(<<"A">>), Some(<<"b">>)}

\* no upload; a file pd.read_csv cannot read; a CSV without a Ticker column
\* (values: its other column); a CSV with one (values: that column)
Files ==
    {None, Some([readable |-> FALSE, has_ticker |-> FALSE, values |-> <<>>])}
    \cup {Some([readable |-> TRUE, has_ticker |-> FALSE, values |-> v]) :
            v \in {<<>>, <<Some(<<"a">>)>>}}
    \cup {Some([readable |-> TRUE, has_ticker |-> TRUE, values |-> v]) :
            v \in SeqsUpTo(TickerCells, MaxFileRows)}

Singles == {<<>>, <<"a">>, <<"B">>}

MSG_NO_COLUMN == "CSV must have a 'Ticker' column"
MSG_READ_ERROR == "Error reading CSV"
MSG_NO_INPUT == "Please upload a CSV with tickers or enter a ticker in the sidebar."
MSG_NO_DATA == "No ESG data found for the given tickers."

RECURSIVE dropna(_)
dropna(col) ==
    IF col = <<>> THEN <<>>
    ELSE IF IsNone(Head(col)) THEN dropna(Tail(col))
    ELSE <<Val(Head(col))>> \o dropna(Tail(col))

\* Series.unique(): the values in order of first appearance
RECURSIVE unique(_)
unique(col) ==
    IF col = <<>> THEN <<>>
    ELSE LET front == unique(SubSeq(col, 1, Len(col) - 1))
             x == col[Len(col)]
         IN  IF \E k \in 1..Len(front) : front[k] = x THEN front ELSE Append(front, x)

str_upper(col) == [k \in 1..Len(col) |-> upper(col[k])]

\* upload_block without the test for the Ticker column: the file's column is read
upload_block_any_column(file) ==
    IF IsNone(file) THEN [tickers |-> <<>>, errors |-> {}]
    ELSE IF ~Val(file).readable THEN [tickers |-> <<>>, errors |-> {MSG_READ_ERROR}]
    ELSE [tickers |-> unique(str_upper(dropna(Val(file).values))), errors |-> {}]

\* the if uploaded_file: block: the tickers it leaves and the errors it shows
upload_block(file) ==
    IF IsNone(file) THEN [tickers |-> <<>>, errors |-> {}]
    ELSE IF ~Val(file).readable THEN [tickers |-> <<>>, errors |-> {MSG_READ_ERROR}]
    ELSE IF ~Val(file).has_ticker THEN [tickers |-> <<>>, errors |-> {MSG_NO_COLUMN}]
    ELSE [tickers |-> unique(str_upper(dropna(Val(file).values))), errors |-> {}]

\* if single_ticker: tickers = [single_ticker.upper()]
single_block(single, from_file) ==
    IF single # <<>> THEN <<upper(single)>> ELSE from_file

----------------------------------------------------------------------------
(* fetch_data under st.cache_data *)

P_ok1 ==
    MkPage(Some([h4 |-> Some(T_14_2), perf |-> Some(T_Low)]),
           Some([h4 |-> Some(T_3), perf |-> None]), None, None,
           Some([table |-> Some(<<<<>>, <<T_TobaccoPad, T_Yes>>>>)]),
           Some([val |-> Some(<<T_3, T_3>>), tooltip |-> Some([peer |-> Some(T_2_1)])]))

P_ok2 ==
    MkPage(Some([h4 |-> Some(T_30), perf |-> None]), None, None, None,
           Some([table |-> Some(<<<<>>, <<T_Tobacco, T_No>>, <<T_Alcohol, T_Yes>>>>)]),
           None)

P_ok3 ==
    MkPage(Some([h4 |-> Some(T_3), perf |-> Some(T_Low)]), None, None, None, None, None)

P_nototal ==
    MkPage(None, Some([h4 |-> Some(T_3), perf |-> None]), None, None,
           Some([table |-> Some(<<<<>>, <<T_Alcohol, T_Yes>>>>)]), None)

P_badtotal ==
    MkPage(Some([h4 |-> Some(T_NA), perf |-> Some(T_Low)]), None, None, None, None, None)

\* what the site may do for one request of the batch
SampleResponses ==
    {[raises |-> TRUE, status_code |-> 0, page |-> EmptyPage],
     [raises |-> FALSE, status_code |-> 404, page |-> EmptyPage]}
    \cup {[raises |-> FALSE, status_code |-> 200, page |-> p] :
            p \in {P_ok1, P_ok2, P_ok3, P_nototal, P_badtotal}}

\* has_data with the test of the total score left out: if data
has_data_any_record(data) == ~IsNone(data)

\* if data and data["total"] is not None (the dict has eight keys: it is truthy)
has_data(data) == ~IsNone(data) /\ ~IsNone(Val(data).total)

\* the dict appended to results
result_row(t, data) ==
    [Ticker |-> t,
     Total_ESG_Risk_Score |-> data.total,
     Total_ESG_Risk_Level |-> data.total_level,
     Environmental_Risk |-> data.environmental,
     Social_Risk |-> data.social,
     Governance_Risk |-> data.governance,
     Controversy_Score |-> data.controversy_score,
     Controversy_Category_Average |-> data.controversy_category_average,
     Involvement_Areas |-> data.involvement_areas]

\* the cache key of st.cache_data: the argument, a list, hashed by content and order
cache_key(ts) == ts

\* fetch_data(tickers) is called: the cached value comes back, or the body starts
FetchCall ==
    /\ pc = "call"
    /\ runs' = runs + 1
    /\ outcomes' = <<>>
    /\ IF cache_key(tickers) \in DOMAIN cache
       THEN /\ extracting' = FALSE
            /\ df' = cache[cache_key(tickers)].df
            /\ valid_count' = cache[cache_key(tickers)].valid_count
            /\ pc' = "returned"
            /\ UNCHANGED <<results, i>>
       ELSE /\ extracting' = TRUE
            /\ results' = <<>>
            /\ valid_count' = 0
            /\ i' = 1
            /\ pc' = "loop"
            /\ df' = df
    /\ UNCHANGED <<svars, uploaded_file, single_ticker, tickers, messages, cache,
                   earlier, df_expanded, coverage_pct>>

\* one pass of for t in tickers; an exception out of scrape_esg_scores leaves
\* fetch_data (nothing catches it) and nothing is cached
LoopStep ==
    /\ pc = "loop"
    /\ i <= Len(tickers)
    /\ \E r \in SampleResponses :
         LET o == scrape_esg_scores(r)
         IN  /\ outcomes' = Append(outcomes, o)
             /\ IF o.raised
                THEN /\ pc' = "raised"
                     /\ UNCHANGED <<results, valid_count, i>>
                ELSE /\ pc' = pc
                     /\ i' = i + 1
                     /\ IF has_data(o.data)
                        THEN /\ valid_count' = valid_count + 1
                             /\ results' = Append(results, result_row(tickers[i], Val(o.data)))
                        ELSE UNCHANGED <<results, valid_count>>
    /\ UNCHANGED <<svars, uploaded_file, single_ticker, tickers, messages, cache,
                   extracting, earlier, runs, df, df_expanded, coverage_pct>>

\* return pd.DataFrame(results), valid_count; the decorator stores the value
FetchReturn ==
    /\ pc = "loop"
    /\ i > Len(tickers)
    /\ df' = results
    /\ cache' = [k \in DOMAIN cache \cup {cache_key(tickers)} |->
                    IF k = cache_key(tickers)
                    THEN [df |-> results, valid_count |-> valid_count]
                    ELSE cache[k]]
    /\ pc' = "returned"
    /\ UNCHANGED <<svars, uploaded_file, single_ticker, tickers, messages, results,
                   valid_count, i, outcomes, extracting, earlier, runs, df_expanded,
                   coverage_pct>>

----------------------------------------------------------------------------
(* The script around fetch_data *)

\* lines 57-74: the upload block, the single entry, the stop on no tickers
InputHandling ==
    /\ pc = "input"
    /\ LET up == upload_block(uploaded_file)
           ts == single_block(single_ticker, up.tickers)
       IN  /\ tickers' = ts
           /\ IF ts = <<>>
              THEN /\ messages' = messages \cup up.errors \cup {MSG_NO_INPUT}
                   /\ pc' = "stopped"
              ELSE /\ messages' = messages \cup up.errors
                   /\ pc' = "call"
    /\ UNCHANGED <<svars, uploaded_file, single_ticker, cache, results, valid_count, i,
                   outcomes, extracting, earlier, runs, df, df_expanded, coverage_pct>>

\* lines 80-82
EmptyCheck ==
    /\ pc = "returned"
    /\ IF df = <<>>
       THEN messages' = messages \cup {MSG_NO_DATA} /\ pc' = "stopped"
       ELSE messages' = messages /\ pc' = "export"
    /\ UNCHANGED <<svars, uploaded_file, single_ticker, tickers, cache, results,
                   valid_count, i, outcomes, extracting, earlier, runs, df, df_expanded,
                   coverage_pct>>

\* the columns of df["Involvement Areas"].apply(pd.Series): the union of the keys
product_columns(frame) ==
    UNION {DOMAIN frame[k].Involvement_Areas : k \in 1..Len(frame)}

\* df["Involvement Areas"].apply(pd.Series): a cell is NaN where the dict has no such key
apply_Series(frame) ==
    [k \in 1..Len(frame) |->
        [p \in product_columns(frame) |->
            IF p \in DOMAIN frame[k].Involvement_Areas
            THEN Some(frame[k].Involvement_Areas[p])
            ELSE None]]

\* fillna that fills nothing
fillna_nothing(frame, value) == frame

fillna(frame, value) ==
    [k \in 1..Len(frame) |->
        [p \in DOMAIN frame[k] |-> IF IsNone(frame[k][p]) THEN Some(value) ELSE frame[k][p]]]

\* df.drop(columns=["Involvement Areas"]), one row
drop_involvement(row) ==
    [Ticker |-> row.Ticker,
     Total_ESG_Risk_Score |-> row.Total_ESG_Risk_Score,
     Total_ESG_Risk_Level |-> row.Total_ESG_Risk_Level,
     Environmental_Risk |-> row.Environmental_Risk,
     Social_Risk |-> row.Social_Risk,
     Governance_Risk |-> row.Governance_Risk,
     Controversy_Score |-> row.Controversy_Score,
     Controversy_Category_Average |-> row.Controversy_Category_Average]

\* pd.concat([...], axis=1): a row is its fixed columns beside its product columns
explode_involvement_columns(frame) ==
    IF frame = <<>> THEN frame
    ELSE LET involvement_df == fillna(apply_Series(frame), T_No)
         IN  [k \in 1..Len(frame) |->
                [fields |-> drop_involvement(frame[k]), products |-> involvement_df[k]]]

\* lines 84-95: the flattened table is what the export button serialises
Export ==
    /\ pc = "export"
    /\ df_expanded' = explode_involvement_columns(df)
    /\ pc' = "normalize"
    /\ UNCHANGED <<svars, uploaded_file, single_ticker, tickers, messages, cache, results,
                   valid_count, i, outcomes, extracting, earlier, runs, df, coverage_pct>>

T_unknown == <<"u", "n", "k", "n", "o", "w", "n">>

\* line 98: df["Total ESG Risk Level"].str.lower().fillna("unknown")
NormalizeLevel ==
    /\ pc = "normalize"
    /\ df' = [k \in 1..Len(df) |->
                [df[k] EXCEPT !.Total_ESG_Risk_Level =
                    IF IsNone(@) THEN Some(T_unknown) ELSE Some(lower(Val(@)))]]
    /\ pc' = "overview"
    /\ UNCHANGED <<svars, uploaded_file, single_ticker, tickers, messages, cache, results,
                   valid_count, i, outcomes, extracting, earlier, runs, df_expanded,
                   coverage_pct>>

\* f"{x:.1f}" of x = (valid / total) * 100, in tenths of a percent
coverage_1f(valid, total) == (2 * 1000 * valid + total) \div (2 * total)

\* the guard of the overview block
shows_overview(frame) == Len(frame) > 1

\* lines 100-114: the overview, with the coverage metric, or nothing
Overview ==
    /\ pc = "overview"
    /\ coverage_pct' =
          IF shows_overview(df) THEN Some(coverage_1f(valid_count, Len(tickers)))
          ELSE coverage_pct
    /\ pc' = "done"
    /\ UNCHANGED <<svars, uploaded_file, single_ticker, tickers, messages, cache, results,
                   valid_count, i, outcomes, extracting, earlier, runs, df, df_expanded>>

\* the ticker lists the script can call fetch_data with
TickerLists == {single_block(s, upload_block(f).tickers) : f \in Files, s \in Singles} \ {<<>>}

\* a later render of the script calls fetch_data again, with some ticker list
Render ==
    /\ pc \in {"returned", "raised"}
    /\ runs < MaxRuns
    /\ \E ts \in TickerLists : tickers' = ts
    /\ earlier' = earlier \cup {tickers}
    /\ pc' = "call"
    /\ results' = <<>>
    /\ valid_count' = 0
    /\ i' = 0
    /\ outcomes' = <<>>
    /\ df' = <<>>
    /\ UNCHANGED <<svars, uploaded_file, single_ticker, messages, cache, extracting, runs,
                   df_expanded, coverage_pct>>

----------------------------------------------------------------------------
(* Specifications *)

EmptyCache == [k \in {} |-> [df |-> <<>>, valid_count |-> 0]]

ScrapeIdle ==
    /\ resp = [raises |-> FALSE, status_code |-> 404, page |-> EmptyPage]
    /\ spc = "idle"
    /\ raised_at = ""
    /\ scores = NoScores
    /\ involvement_data = EmptyDict
    /\ controversy = NoControversy
    /\ ret = None

FetchLocals ==
    /\ messages = {}
    /\ cache = EmptyCache
    /\ results = <<>>
    /\ valid_count = 0
    /\ i = 0
    /\ outcomes = <<>>
    /\ extracting = FALSE
    /\ earlier = {}
    /\ runs = 0
    /\ df = <<>>
    /\ df_expanded = <<>>
    /\ coverage_pct = None

\* one call of scrape_esg_scores, for every response
InitScrape ==
    /\ resp \in Responses
    /\ spc = "start"
    /\ raised_at = ""
    /\ scores = NoScores
    /\ involvement_data = EmptyDict
    /\ controversy = NoControversy
    /\ ret = None
    /\ uploaded_file = None
    /\ single_ticker = <<>>
    /\ tickers = <<>>
    /\ pc = "idle"
    /\ FetchLocals

NextScrape ==
    \/ Request
    \/ CheckStatus
    \/ \E k \in 1..Len(ScoreIds) : GetScore(k)
    \/ Involvement
    \/ Controversy
    \/ Return

SpecScrape == InitScrape /\ [][NextScrape]_vars

\* one run of the script, for every upload and single entry
Init ==
    /\ ScrapeIdle
    /\ uploaded_file \in Files
    /\ single_ticker \in Singles
    /\ tickers = <<>>
    /\ pc = "input"
    /\ FetchLocals

Next ==
    \/ InputHandling
    \/ FetchCall
    \/ LoopStep
    \/ FetchReturn
    \/ EmptyCheck
    \/ Export
    \/ NormalizeLevel
    \/ Overview

Spec == Init /\ [][Next]_vars

\* fetch_data called over successive renders, the cache kept between them
InitFetch ==
    /\ ScrapeIdle
    /\ uploaded_file = None
    /\ single_ticker = <<>>
    /\ tickers \in TickerLists
    /\ pc = "call"
    /\ FetchLocals

NextFetch ==
    \/ FetchCall
    \/ LoopStep
    \/ FetchReturn
    \/ Render

SpecFetch == InitFetch /\ [][NextFetch]_vars

----------------------------------------------------------------------------
(* Properties of fetch_data (SpecFetch) *)

\* the positions of the batch whose fetch returned a record with a total score
Kept(outs) ==
    {k \in 1..Len(outs) :
        ~outs[k].raised /\ ~IsNone(outs[k].data) /\ ~IsNone(Val(outs[k].data).total)}

\* the j-th row of the table comes from the j-th kept position
RowsMatch(table, ts, outs) ==
    /\ Len(table) = Cardinality(Kept(outs))
    /\ \A k \in Kept(outs) :
         LET j == Cardinality({x \in Kept(outs) : x <= k})
         IN  /\ table[j].Ticker = ts[k]
             /\ table[j].Total_ESG_Risk_Score = Val(outs[k].data).total
             /\ table[j].Involvement_Areas = Val(outs[k].data).involvement_areas

\* C1: when the body of fetch_data returns, the table has exactly one row for
\* each position of the ticker list whose fetch returned a record with a
\* non-null total score, in input order, none for a position whose fetch
\* returned None or a record with a null total, and valid_count is the number
\* of rows.
C1_TableOfValidRecords ==
    (pc = "returned" /\ extracting) =>
        /\ Len(outcomes) = Len(tickers)
        /\ RowsMatch(df, tickers, outcomes)
        /\ valid_count = Len(df)

\* a batch of two whose first fetch gave a record without a total score and
\* whose second gave one with: one row, the second ticker's
C1_Witness ==
    /\ pc = "returned" /\ extracting
    /\ Len(tickers) = 2 /\ Len(outcomes) = 2
    /\ ~IsNone(outcomes[1].data) /\ IsNone(Val(outcomes[1].data).total)
    /\ Len(df) = 1 /\ df[1].Ticker = tickers[2] /\ valid_count = 1

FetchFailed(o) == o.raised \/ IsNone(o.data)

\* C3: a ticker whose fetch fails (no connection, a non-success status, a
\* failed extraction) does not stop the batch: fetch_data is never left by an
\* exception, and when it returns every other ticker with a total score has
\* its row.
C3_FailureIsolation ==
    (\E k \in 1..Len(outcomes) : FetchFailed(outcomes[k])) =>
        /\ pc # "raised"
        /\ (pc = "returned" /\ extracting) => RowsMatch(df, tickers, outcomes)

\* C5: a call of fetch_data runs the extraction if and only if no earlier call
\* was made with the same ordered ticker list, and a call that does not run it
\* returns the stored result.
C5_Memoization ==
    (pc \in {"loop", "returned", "raised"}) =>
        /\ extracting <=> (tickers \notin earlier)
        /\ (pc = "returned" /\ ~extracting) =>
              (df = cache[tickers].df /\ valid_count = cache[tickers].valid_count)

----------------------------------------------------------------------------
(* Properties of scrape_esg_scores (SpecScrape) *)

Success == ~resp.raises /\ resp.status_code = 200
Returned == spc = "done" /\ ~IsNone(ret)

\* a score field's section is missing, its h4 is missing, or its text is no number
ScoreAbsent(section) ==
    \/ IsNone(section)
    \/ IsNone(Val(section).h4)
    \/ ~float(Val(Val(section).h4)).ok

\* C2: for a page returned with status 200, scrape_esg_scores returns a record
\* and raises nothing, and a field whose section or sub-element is missing, or
\* whose text is no number, is None in it.
C2_NullSafeExtraction ==
    Success =>
        /\ spc # "raised"
        /\ Returned =>
              /\ ScoreAbsent(resp.page.TOTAL_ESG_SCORE) => IsNone(Val(ret).total)
              /\ ScoreAbsent(resp.page.ENVIRONMENTAL_SCORE) => IsNone(Val(ret).environmental)
              /\ ScoreAbsent(resp.page.SOCIAL_SCORE) => IsNone(Val(ret).social)
              /\ ScoreAbsent(resp.page.GOVERNANCE_SCORE) => IsNone(Val(ret).governance)
              /\ IsNone(resp.page.esg_controversy) =>
                    /\ IsNone(Val(ret).controversy_score)
                    /\ IsNone(Val(ret).controversy_category_average)

EightFields ==
    {"total", "total_level", "environmental", "social", "governance",
     "involvement_areas", "controversy_score", "controversy_category_average"}

\* C4: whenever requests.get gives a response, scrape_esg_scores ends by
\* returning: None, with nothing parsed, when the status is not 200, and a
\* record of the eight fields otherwise.
C4_StatusContract ==
    (~resp.raises /\ spc \in {"done", "raised"}) =>
        /\ spc = "done"
        /\ IF resp.status_code # 200
           THEN IsNone(ret) /\ scores = NoScores /\ involvement_data = EmptyDict
           ELSE ~IsNone(ret) /\ DOMAIN Val(ret) = EightFields

\* the rows of the involvement table, when the section and the table exist
TableRows(page) ==
    IF IsNone(page.involvement_areas) \/ IsNone(Val(page.involvement_areas).table)
    THEN <<>>
    ELSE Val(Val(page.involvement_areas).table)

\* the rows after the first that have exactly two cells
PairRows(page) ==
    {k \in 2..Len(TableRows(page)) : Len(TableRows(page)[k]) = 2}

InvolvementDone == spc \in {"controversy", "return"} \/ Returned

\* C6: the involvement mapping holds exactly the product names of the rows
\* after the first that have exactly two cells, each with the descriptor of
\* the last such row of that name; a missing section or table, or a table of
\* one row, gives the empty mapping; the step raises nothing.
C6_InvolvementMapping ==
    /\ raised_at \notin {"involvement"}
    /\ InvolvementDone =>
          LET rows == TableRows(resp.page)
              pairs == PairRows(resp.page)
          IN  /\ DOMAIN involvement_data = {strip(rows[k][1]) : k \in pairs}
              /\ \A k \in pairs :
                    (\A l \in pairs : l > k => strip(rows[l][1]) # strip(rows[k][1]))
                        => involvement_data[strip(rows[k][1])] = strip(rows[k][2])
              /\ (Len(rows) <= 1) => involvement_data = EmptyDict
              /\ Returned => Val(ret).involvement_areas = involvement_data

\* a table whose two-cell first row is skipped and whose two later rows name
\* the same product: the later descriptor is the one kept
C6_Witness ==
    /\ Returned
    /\ LET rows == TableRows(resp.page)
       IN  /\ Len(rows) = 3
           /\ rows[1] = <<T_Tobacco, T_No>>
           /\ rows[2] = <<T_TobaccoPad, T_Yes>>
           /\ rows[3] = <<T_Tobacco, T_No>>
    /\ involvement_data = [p \in {T_Tobacco} |-> T_No]

ControversyDone == spc = "return" \/ Returned

FirstSpanAbsent(section) ==
    \/ IsNone(section.val)
    \/ Val(section.val) = <<>>
    \/ ~float(Val(section.val)[1]).ok

PeerAbsent(section) ==
    \/ IsNone(section.tooltip)
    \/ IsNone(Val(section.tooltip).peer)
    \/ ~float(Val(Val(section.tooltip).peer)).ok

AverageAsRead(section) ==
    IF PeerAbsent(section) THEN IsNone(controversy.category_average)
    ELSE controversy.category_average = Some(float(Val(Val(section.tooltip).peer)).v)

\* C7 as stated: with the controversy section present, the score is the number
\* of the first span of the value element and None exactly when that span is
\* missing or no number; the average is the number of the peer-score element
\* and None exactly when that element is missing or no number.
C7_AsStated ==
    (ControversyDone /\ ~IsNone(resp.page.esg_controversy)) =>
        LET section == Val(resp.page.esg_controversy)
        IN  /\ IF FirstSpanAbsent(section) THEN IsNone(controversy.controversy_score)
               ELSE controversy.controversy_score = Some(float(Val(section.val)[1]).v)
            /\ AverageAsRead(section)

\* C7, amended: the score is read only from a value element of at least two
\* spans; it is None exactly when the value element is missing, has fewer than
\* two spans, or its first span is no number, and the number of the first span
\* otherwise.  The average is as stated, each field whatever the other is.
C7_Controversy ==
    (ControversyDone /\ ~IsNone(resp.page.esg_controversy)) =>
        LET section == Val(resp.page.esg_controversy)
        IN  /\ IF FirstSpanAbsent(section) \/ Len(Val(section.val)) < 2
               THEN IsNone(controversy.controversy_score)
               ELSE controversy.controversy_score = Some(float(Val(section.val)[1]).v)
            /\ AverageAsRead(section)
            /\ Returned =>
                  /\ Val(ret).controversy_score = controversy.controversy_score
                  /\ Val(ret).controversy_category_average = controversy.category_average

\* the first span is no number and the peer element reads 2.1: the score is
\* None and the average is 2.1 all the same
C7_Witness ==
    /\ Returned
    /\ ~IsNone(resp.page.esg_controversy)
    /\ Val(resp.page.esg_controversy).val = Some(<<T_NA, T_3>>)
    /\ Val(resp.page.esg_controversy).tooltip = Some([peer |-> Some(T_2_1)])
    /\ IsNone(Val(ret).controversy_score)
    /\ Val(ret).controversy_category_average = Some([m |-> 21, e |-> 1])

----------------------------------------------------------------------------
(* Properties of the script (Spec) *)

Exported == pc \in {"normalize", "overview", "done"}

\* C8: the exported table has one row per ticker that had data, in the order
\* of the table of valid records, and one product column per product of the
\* mappings of those rows; a cell holds the row's descriptor of the product,
\* or "No" when the row's mapping lacks it; the other eight fields of a row
\* are those of the table of valid records.
C8_FlattenedExport ==
    Exported =>
        /\ Len(df_expanded) = Len(results)
        /\ Len(df_expanded) = Cardinality(Kept(outcomes))
        /\ \A k \in 1..Len(df_expanded) :
              LET row == df_expanded[k]
                  areas == results[k].Involvement_Areas
              IN  /\ \A j \in 1..Len(results) :
                        DOMAIN results[j].Involvement_Areas \subseteq DOMAIN row.products
                  /\ \A p \in DOMAIN row.products :
                        /\ \E j \in 1..Len(results) : p \in DOMAIN results[j].Involvement_Areas
                        /\ row.products[p] = IF p \in DOMAIN areas THEN Some(areas[p])
                                             ELSE Some(<<"N", "o">>)
                  /\ row.fields.Ticker = results[k].Ticker
                  /\ row.fields.Total_ESG_Risk_Score = results[k].Total_ESG_Risk_Score
                  /\ row.fields.Total_ESG_Risk_Level = results[k].Total_ESG_Risk_Level
                  /\ row.fields.Environmental_Risk = results[k].Environmental_Risk
                  /\ row.fields.Social_Risk = results[k].Social_Risk
                  /\ row.fields.Governance_Risk = results[k].Governance_Risk
                  /\ row.fields.Controversy_Score = results[k].Controversy_Score
                  /\ row.fields.Controversy_Category_Average
                        = results[k].Controversy_Category_Average

\* two rows, the second with a product the first lacks: the first row's cell
\* of that product is the placeholder, its own product keeps its descriptor
C8_Witness ==
    /\ pc = "done"
    /\ Len(df_expanded) = 2
    /\ DOMAIN results[1].Involvement_Areas = {T_Tobacco}
    /\ DOMAIN df_expanded[1].products = {T_Tobacco, T_Alcohol}
    /\ df_expanded[1].products[T_Alcohol] = Some(T_No)
    /\ df_expanded[1].products[T_Tobacco] = Some(T_Yes)
    /\ df_expanded[2].products[T_Alcohol] = Some(T_Yes)

\* C9, for a batch of more than one ticker (a batch of one ticker with data
\* shows no coverage either): when at least one ticker has data the run ends
\* with the coverage percentage, 100 * valid_count / len(tickers); a batch of
\* two of which one has data gives a table of one row and coverage 50.0%.
C9_Coverage ==
    (pc = "done" /\ Len(tickers) >= 2 /\ valid_count >= 1) =>
        /\ ~IsNone(coverage_pct)
        /\ Val(coverage_pct) * Len(tickers) = 1000 * valid_count
        /\ (Len(tickers) = 2 /\ valid_count = 1) =>
              (Len(df) = 1 /\ coverage_pct = Some(500))

BadUpload ==
    /\ ~IsNone(uploaded_file)
    /\ ~Val(uploaded_file).readable \/ ~Val(uploaded_file).has_ticker

\* C10: after the input block, an upload that cannot be read or lacks the
\* Ticker column has shown its error and given no ticker: with a single entry
\* the ticker list is that entry, uppercased, fetch_data is called with it and
\* its row, if it has data, is the one rendered; without one the run has
\* stopped and no fetch was made.
C10_BadUpload ==
    (pc # "input" /\ BadUpload) =>
        /\ IF Val(uploaded_file).readable THEN MSG_NO_COLUMN \in messages
           ELSE MSG_READ_ERROR \in messages
        /\ single_ticker = <<>> =>
              /\ tickers = <<>>
              /\ pc = "stopped"
              /\ MSG_NO_INPUT \in messages
              /\ runs = 0 /\ outcomes = <<>>
        /\ single_ticker = <<"a">> => tickers = << <<"A">> >>
        /\ single_ticker = <<"B">> => tickers = << <<"B">> >>
        /\ single_ticker # <<>> =>
              /\ MSG_NO_INPUT \notin messages
              /\ pc \notin {"call", "stopped"} => runs = 1
              /\ pc \in {"export", "normalize", "overview", "done"} =>
                    (Len(df) = 1 /\ df[1].Ticker = tickers[1])

\* a CSV without the Ticker column, holding a ticker in its other column, and
\* the single entry "a": the error is shown and the row rendered is A's
C10_Witness ==
    /\ pc = "done"
    /\ ~IsNone(uploaded_file)
    /\ Val(uploaded_file).readable /\ ~Val(uploaded_file).has_ticker
    /\ Val(uploaded_file).values # <<>>
    /\ single_ticker = <<"a">>
    /\ MSG_NO_COLUMN \in messages
    /\ Len(df) = 1 /\ df[1].Ticker = <<"A">>

====
